---- MODULE Spec2Model ----
(***************************************************************************)
(* The DICOM ingestion service of main.py: the store_study handler, the    *)
(* catalog tables of model.py it upserts into, the per-request database    *)
(* session of database.py, and the two storage directories.                *)
(*                                                                         *)
(* A request is a coroutine.  Each action below is the code that runs      *)
(* between two awaits of store_study, so that requests interleave exactly  *)
(* where the event loop can switch between them.                           *)
(***************************************************************************)
EXTENDS Integers, Sequences, FiniteSets, TLC

\* ------------------------------------------------------------------ bounds
NumRequests == 2        \* request slots (coroutines that can be in flight)
MaxFiles == 3           \* longest upload list of one request
MaxIngest == 3          \* files uploaded in total when requests run one after another
PixelCount == 3         \* samples of a pixel array
MaxConcIngest == 2      \* files uploaded in total when requests run concurrently

Requests == 1..NumRequests

\* ------------------------------------------------------------- input values
NoneVal == "<None>"                  \* Python None (ds.get on an absent tag)
\* (variant: "v is None", which lets an empty tag through)
Falsy_NoneOnly(v) == v = NoneVal
Falsy(v) == v = NoneVal \/ v = ""    \* "not v" for a str-or-None value

DICOM_MEDIA_TYPE == "application/dicom"

PatientIds == {"P1", "P2"}
StudyIds == {"S1", "S2"}
ImageUids == {"U1", "U2"}

MandatoryFields == <<"StudyDate", "PatientID", "PatientBirthDate", "PatientSex", "Laterality">>

\* An uploaded file: its declared media type, whether pydicom can read its
\* bytes, the tags of the decoded dataset, the state of its pixel payload
\* ("ok": decodes to a preview, "bad": pixel extraction raises, "none": no
\* PixelData element) and its bytes: the text of its tags followed by
\* `padding` filler bytes.
MkFile(ctype, readable, sid, date, pid, birth, sex, lat, uid, suid, age, px) ==
    [ content_type |-> ctype, readable |-> readable,
      StudyID |-> sid, StudyDate |-> date, PatientID |-> pid,
      PatientBirthDate |-> birth, PatientSex |-> sex, Laterality |-> lat,
      SOPInstanceUID |-> uid, StudyInstanceUID |-> suid, PatientAge |-> age,
      PixelData |-> px, padding |-> 0,
      content |-> ctype \o "|" \o sid \o "|" \o date \o "|" \o pid \o "|" \o birth \o "|"
                  \o sex \o "|" \o lat \o "|" \o uid \o "|" \o suid \o "|" \o age \o "|" \o px ]

NoFile == MkFile("", FALSE, NoneVal, NoneVal, NoneVal, NoneVal, NoneVal, NoneVal,
                 NoneVal, NoneVal, NoneVal, "none")

\* The bytes the pixel payload of a photograph adds to a file: more than the
\* write buffer holds.
PixelPayload == 5000

\* The well-formed uploads.  Image U1 is a left-eye photograph with a pixel
\* payload, taken in a study with its own StudyInstanceUID; image U2 is a
\* right-eye record without pixels, a file of a few bytes, whose
\* StudyInstanceUID is always SU-S1 and whose demographic tags are spelled
\* differently.
GoodFile(pid, sid, uid) ==
    IF uid = "U1"
    THEN [MkFile(DICOM_MEDIA_TYPE, TRUE, sid, "20200101", pid, "19700101", "F", "L",
                 uid, "SU-" \o sid, "050Y", "ok") EXCEPT !.padding = PixelPayload]
    ELSE MkFile(DICOM_MEDIA_TYPE, TRUE, sid, "20210202", pid, "19800202", "M", "R",
                uid, "SU-S1", NoneVal, "none")

GoodFiles == { GoodFile(p, s, u) : p \in PatientIds, s \in StudyIds, u \in ImageUids }

BaseFile == GoodFile("P1", "S1", "U1")

\* BaseFile with one mandatory tag absent or empty.
MissingFiles ==
    { [BaseFile EXCEPT ![MandatoryFields[k]] = v, !.content = @ \o "|-" \o MandatoryFields[k] \o v] :
        k \in 1..Len(MandatoryFields), v \in {NoneVal, ""} }

\* BaseFile with a wrong media type, unreadable bytes, no StudyID, or a pixel
\* payload that cannot be decoded.
OddFiles ==
    { [BaseFile EXCEPT !.content_type = "image/png", !.content = @ \o "|png"],
      [BaseFile EXCEPT !.readable = FALSE, !.content = @ \o "|garbled"],
      [BaseFile EXCEPT !.StudyID = NoneVal, !.content = @ \o "|-StudyID"],
      [BaseFile EXCEPT !.StudyID = "", !.content = @ \o "|-StudyID="],
      [BaseFile EXCEPT !.PixelData = "bad", !.content = @ \o "|badpixels"] }

Files == GoodFiles \cup MissingFiles \cup OddFiles

\* A file of image U2 whose pixel payload is a thumbnail of a few bytes: the
\* whole file fits the write buffer.
ThumbFile == MkFile(DICOM_MEDIA_TYPE, TRUE, "S2", "20210202", "P2", "19800202", "M", "R",
                    "U2", "SU-S1", NoneVal, "ok")

\* The uploads of concurrently running requests: a photograph, and two
\* byte-different small files with a preview that carry the same identifiers,
\* those of another patient, study and image.
ConcFiles ==
    { BaseFile,
      ThumbFile,
      [ThumbFile EXCEPT !.PatientSex = "F", !.content = @ \o "|v2"] }

\* The uploads of racing requests: two files that share a study_uid under
\* different study_ids; two requests with the same file share every key.
RaceFiles == { BaseFile, ThumbFile }

\* The inputs of the validator: BaseFile with every combination of a StudyID
\* that is right, wrong, absent or empty and of mandatory tags that are
\* present, absent or empty.
TagChoices(name) == {BaseFile[name], NoneVal, ""}
ValidatorFiles ==
    { MkFile(DICOM_MEDIA_TYPE, TRUE, sid, d, p, b, x, l, BaseFile.SOPInstanceUID,
             BaseFile.StudyInstanceUID, BaseFile.PatientAge, BaseFile.PixelData) :
        sid \in StudyIds \cup {NoneVal, ""},
        d \in TagChoices("StudyDate"), p \in TagChoices("PatientID"),
        b \in TagChoices("PatientBirthDate"), x \in TagChoices("PatientSex"),
        l \in TagChoices("Laterality") }

\* What the prediction service can do with one POST: whether a response is
\* delivered at all, its status, the shape of its body, and the "score" member
\* of the body when it is a JSON object.
Outcome(delivered, status, json, score, value) ==
    [delivered |-> delivered, status |-> status, json |-> json, score |-> score, value |-> value]

\* Scores are counted in halves, so that a score with a fraction can be told
\* from a whole one: ScoreUnit is the score 1.0.
ScoreUnit == 2

\* The numeric scores of the service: 1.0 and 1.5.
ScoreValues == {ScoreUnit, ScoreUnit + 1}

\* A "score" member that is not a number and not null, such as "high".
TextScore == 0 - 1

ScoreOutcomes ==
    { Outcome(FALSE, 0, "malformed", "absent", 0),      \* connection refused, timeout
      Outcome(TRUE, 500, "object", "number", ScoreUnit),  \* error status (the body is not looked at)
      Outcome(TRUE, 200, "malformed", "absent", 0),     \* not JSON
      Outcome(TRUE, 200, "array", "absent", 0),         \* JSON, but no object
      Outcome(TRUE, 200, "object", "absent", 0),        \* no "score" member
      Outcome(TRUE, 200, "object", "null", 0),          \* "score": null
      Outcome(TRUE, 200, "object", "text", TextScore) } \* "score": "high"
      \cup { Outcome(TRUE, 200, "object", "number", v) : v \in ScoreValues }

\* The POST did not yield a numeric score.
ScoringFailed(o) ==
    ~(o.delivered /\ o.status \in 200..299 /\ o.json = "object" /\ o.score = "number")

\* The default score, 0.0.
DEFAULT_SCORE == 0
WhiteLevel == 255

\* The value an Integer column keeps of a score s >= 0: the driver sends int(s).
ToInteger(s) == (s \div ScoreUnit) * ScoreUnit

\* image_score after the try block of the scoring call.
ScoreOf(o) ==
    IF ~o.delivered THEN DEFAULT_SCORE                       \* except httpx.RequestError
    ELSE IF o.status \notin 200..299 THEN DEFAULT_SCORE      \* raise_for_status() -> except Exception
    ELSE IF o.json = "malformed" THEN DEFAULT_SCORE          \* response.json() raises
    ELSE IF o.json # "object" THEN DEFAULT_SCORE             \* .get on a non-dict raises
    ELSE IF o.score \in {"absent", "null"} THEN DEFAULT_SCORE  \* scoring_result.get("score") is None
    ELSE o.value                                             \* whatever the member is

\* ------------------------------------------------------------ storage paths
\* os.path.join(DICOM_DIR, f"{uid}.dcm") and os.path.join(IMAGE_DIR, f"{uid}.png")
DicomPath(uid) == "storage/dicom/" \o uid \o ".dcm"
DicomName(uid) == uid \o ".dcm"

\* A file of DICOM_DIR: whether it exists and its bytes, a sequence of chunks,
\* each a text followed by `fill` filler bytes.
NoBlob == [exists |-> FALSE, bytes |-> <<>>]       \* no file under the path
EmptyBlob == [exists |-> TRUE, bytes |-> <<>>]     \* opened with 'wb', nothing written yet

\* No file under a path of IMAGE_DIR.
NoImage == "<absent>"

\* content = await file.read(): the bytes of an upload.
UploadBytes(f) == <<[text |-> f.content, fill |-> f.padding]>>

RECURSIVE SizeOf(_)
SizeOf(cs) == IF cs = <<>> THEN 0 ELSE Len(Head(cs).text) + Head(cs).fill + SizeOf(Tail(cs))

\* The bytes of cs from offset k on.
RECURSIVE Drop(_, _)
Drop(cs, k) ==
    IF cs = <<>> THEN <<>>
    ELSE LET c == Head(cs)
             lt == Len(c.text) IN
         IF k >= lt + c.fill THEN Drop(Tail(cs), k - (lt + c.fill))
         ELSE IF k >= lt THEN <<[text |-> "", fill |-> lt + c.fill - k]>> \o Tail(cs)
         ELSE <<[text |-> SubSeq(c.text, k + 1, lt), fill |-> c.fill]>> \o Tail(cs)

\* A file after bytes were written at its offset 0: what it held beyond them
\* stays.
Overlay(blob, bytes) == [exists |-> TRUE, bytes |-> bytes \o Drop(blob.bytes, SizeOf(bytes))]

\* The buffer of a file opened with open(path, 'wb'): one block of the file
\* system.  A write that fits is kept in the buffer until the file is closed;
\* a larger one goes to the file.
BufferSize == 4096
Buffered(f) == SizeOf(UploadBytes(f)) <= BufferSize

\* -------------------------------------------------------------------- state
VARIABLES
    mode,        \* "serial": requests run one after another; "concurrent", "racing": they overlap
    patients,    \* committed rows of table patient
    studies,     \* committed rows of table study
    images,      \* committed rows of table image
    seq,         \* the three primary-key sequences: next value of each
    sess,        \* per request: the rows its open transaction has flushed
    dicomDir,    \* DICOM_DIR: image uid -> bytes of <uid>.dcm
    imageDir,    \* IMAGE_DIR: image uid -> bytes of <uid>.png
    req,         \* per request: position in store_study and its local variables
    nread,       \* files uploaded so far, over all requests
    hist,        \* history of the commits (for stating properties only)
    listing,     \* the answer of the last GET /studies, until it is delivered
    pixels       \* a decoded pixel array and the 8-bit image made of it

vars == <<mode, patients, studies, images, seq, sess, dicomDir, imageDir, req, nread, hist,
          listing, pixels>>

EmptySession == [patients |-> {}, studies |-> {}, images |-> {}, scores |-> {}]

\* A request that has not started: no local variable is bound.
IdleRequest ==
    [ pc |-> "idle", study_id |-> NoneVal, nfiles |-> 0, files |-> <<>>,
      image_score |-> DEFAULT_SCORE, scoring |-> "unset",
      patient_key |-> 0, study_key |-> 0, image_key |-> 0, loaded |-> {},
      stored_files_info |-> <<>>, status |-> 0, detail |-> "", body |-> <<>>,
      error |-> "" ]

\* No GET /studies is waiting for its answer.
NoListing == [status |-> 0, detail |-> "", body |-> {}]

\* No pixel array is at hand.
NoPixels == [dtype |-> "none", samples |-> <<>>, image |-> <<>>]

EmptyHistory ==
    [ patient_ids |-> {}, study_ids |-> {}, image_uids |-> {},
      owner |-> [s \in StudyIds |-> NoneVal],
      returned |-> [u \in ImageUids |-> {}],
      ingests |-> [u \in ImageUids |-> 0],
      raced |-> FALSE, refused |-> FALSE, crashed |-> FALSE ]

InitCommon ==
    /\ patients = {} /\ studies = {} /\ images = {}
    /\ seq = [patient |-> 1, study |-> 1, image |-> 1]
    /\ sess = [r \in Requests |-> EmptySession]
    /\ dicomDir = [u \in ImageUids |-> NoBlob]
    /\ imageDir = [u \in ImageUids |-> NoImage]
    /\ req = [r \in Requests |-> IdleRequest]
    /\ nread = 0
    /\ hist = EmptyHistory
    /\ listing = NoListing
    /\ pixels = NoPixels

Init == mode = "serial" /\ InitCommon
InitConc == mode = "concurrent" /\ InitCommon
InitRace == mode = "racing" /\ InitCommon
InitDelete == mode = "deleting" /\ InitCommon

\* One request whose file has just been read, the file being any input of
\* the validator.
InitValidate ==
    /\ mode = "validating"
    /\ patients = {} /\ studies = {} /\ images = {}
    /\ seq = [patient |-> 1, study |-> 1, image |-> 1]
    /\ sess = [r \in Requests |-> EmptySession]
    /\ dicomDir = [u \in ImageUids |-> NoBlob]
    /\ imageDir = [u \in ImageUids |-> NoImage]
    /\ \E f \in ValidatorFiles, sid \in StudyIds :
          req = [r \in Requests |->
                   IF r = 1
                   THEN [IdleRequest EXCEPT !.pc = "read", !.study_id = sid, !.nfiles = 1,
                                            !.files = <<f>>]
                   ELSE IdleRequest]
    /\ nread = 1
    /\ hist = EmptyHistory
    /\ listing = NoListing
    /\ pixels = NoPixels

Uploads == IF mode = "serial" THEN Files ELSE IF mode = "racing" THEN RaceFiles ELSE ConcFiles

Budget == IF mode = "serial" THEN MaxIngest ELSE MaxConcIngest

\* --------------------------------------------------------------- the handler
\* The file the loop is at: the last one read from the upload list.
CurFile(r) == req[r].files[Len(req[r].files)]

\* (variant: the entries gathered so far are sent along with the error)
Raise_PartialList(rq, status, detail) ==
    [rq EXCEPT !.pc = "failed", !.status = status, !.detail = detail, !.loaded = {},
               !.body = rq.stored_files_info, !.error = "HTTPException"]

\* raise HTTPException(status_code, detail): the coroutine ends, FastAPI answers
\* with the status and the detail, and the locals are dropped with the frame.
Raise(rq, status, detail) ==
    [rq EXCEPT !.pc = "failed", !.status = status, !.detail = detail, !.loaded = {},
               !.body = <<>>, !.error = "HTTPException"]

\* An exception that no except clause of the handler catches, raised by a
\* flush: the coroutine ends and the server answers 500 Internal Server Error,
\* without a detail.  `error` is the class of the exception, which the client
\* does not see.
Crash(rq, exception) ==
    [rq EXCEPT !.pc = "failed", !.status = 500, !.detail = "", !.loaded = {},
               !.body = <<>>, !.error = exception]

\* A request arrives: study_id from the path and the upload list.  In serial
\* mode no other request is in flight.
StartRequest(r) ==
    /\ req[r].pc = "idle"
    /\ mode \notin {"concurrent", "racing"} => listing = NoListing /\ \A q \in Requests \ {r} : req[q].pc = "idle"
    /\ \E sid \in StudyIds, n \in 1..MaxFiles :
          /\ nread + n <= Budget
          /\ nread' = nread + n
          /\ req' = [req EXCEPT ![r] = [IdleRequest EXCEPT !.pc = "loop", !.study_id = sid, !.nfiles = n]]
    /\ UNCHANGED <<mode, listing, pixels, patients, studies, images, seq, sess, dicomDir, imageDir, hist>>

\* for file in files: the media-type check, then await file.read().
BeginFile(r) ==
    /\ req[r].pc = "loop"
    /\ Len(req[r].files) < req[r].nfiles
    /\ \E f \in Uploads :
          LET rq == [req[r] EXCEPT !.files = Append(@, f), !.scoring = "unset"] IN
          req' = [req EXCEPT ![r] =
                    IF f.content_type # DICOM_MEDIA_TYPE
                    THEN Raise(rq, 415, "Unsupported Media Type")
                    ELSE [rq EXCEPT !.pc = "read"]]
    /\ UNCHANGED <<mode, listing, pixels, patients, studies, images, seq, sess, dicomDir, imageDir, nread, hist>>

\* The list is exhausted: return JSONResponse({"stored_files": stored_files_info}).
Respond(r) ==
    /\ req[r].pc = "loop"
    /\ Len(req[r].files) = req[r].nfiles
    /\ req' = [req EXCEPT ![r] = [@ EXCEPT !.pc = "done", !.status = 200, !.loaded = {},
                                             !.body = req[r].stored_files_info]]
    /\ UNCHANGED <<mode, listing, pixels, patients, studies, images, seq, sess, dicomDir, imageDir, nread, hist>>

\* (variant: the Laterality check is left out)
FirstMissing_NoLaterality(f) ==
    LET miss == { k \in 1..(Len(MandatoryFields) - 1) : Falsy(f[MandatoryFields[k]]) } IN
    IF miss = {} THEN "" ELSE MandatoryFields[CHOOSE k \in miss : \A j \in miss : k <= j]

\* The first mandatory tag, in the order of the checks, that the dataset lacks.
FirstMissing(f) ==
    LET miss == { k \in 1..Len(MandatoryFields) : Falsy(f[MandatoryFields[k]]) } IN
    IF miss = {} THEN "" ELSE MandatoryFields[CHOOSE k \in miss : \A j \in miss : k <= j]

\* (variant: the mandatory tags are checked before the StudyID)
Validate_TagsFirst(f, study_id) ==
    IF ~f.readable THEN "Invalid DICOM file"
    ELSE IF FirstMissing(f) # "" THEN "missing " \o FirstMissing(f)
    ELSE IF Falsy(f.StudyID) \/ f.StudyID # study_id THEN "Mismatched StudyID"
    ELSE ""

\* Decoder and validator: the detail of the HTTPException raised for the file,
\* or "" when the file passes.
Validate(f, study_id) ==
    IF ~f.readable THEN "Invalid DICOM file"
    ELSE IF Falsy(f.StudyID) \/ f.StudyID # study_id THEN "Mismatched StudyID"
    ELSE IF FirstMissing(f) # "" THEN "missing " \o FirstMissing(f)
    ELSE ""

\* (variant: the test is inverted)
BlobExists_Inverted(uid) == dicomDir[uid] = NoBlob

\* os.path.exists(absolute_filepath)
BlobExists(uid) == dicomDir[uid] # NoBlob

PngOf(f) == "png(" \o f.content \o ")"

\* (variant: the POST is sent whenever the dataset has a PixelData element)
AfterPixels_AnyPixelData(rq, f) ==
    IF f.PixelData # "none"
    THEN [rq EXCEPT !.pc = "score"]
    ELSE [rq EXCEPT !.pc = "selPatient", !.image_score = DEFAULT_SCORE, !.scoring = "skipped"]

\* The pixel block and what follows it up to the next await: with a preview
\* the PNG is saved and the POST is sent; without one the score is 0.0 and the
\* handler goes on to the patient lookup.
AfterPixels(rq, f) ==
    IF f.PixelData = "ok"
    THEN [rq EXCEPT !.pc = "score"]
    ELSE [rq EXCEPT !.pc = "selPatient", !.image_score = DEFAULT_SCORE, !.scoring = "skipped"]

PreviewSaved(f) ==
    IF f.PixelData = "ok" THEN [imageDir EXCEPT ![f.SOPInstanceUID] = PngOf(f)] ELSE imageDir

\* file.read() has returned: decode, validate, look for the blob.  When the
\* blob exists the write is skipped and the pixel block runs at once.
ValidateFile(r) ==
    /\ req[r].pc = "read"
    /\ LET f == CurFile(r)
           why == Validate(f, req[r].study_id) IN
       IF why # ""
       THEN /\ req' = [req EXCEPT ![r] = Raise(@, 400, why)]
            /\ UNCHANGED imageDir
       ELSE IF BlobExists(f.SOPInstanceUID)
       THEN /\ req' = [req EXCEPT ![r] = AfterPixels(@, f)]
            /\ imageDir' = PreviewSaved(f)
       ELSE /\ req' = [req EXCEPT ![r].pc = "open"]
            /\ UNCHANGED imageDir
    /\ UNCHANGED <<mode, listing, pixels, patients, studies, images, seq, sess, dicomDir, nread, hist>>

\* aiofiles.open(absolute_filepath, 'wb'): creates or truncates the file.
OpenBlob(r) ==
    /\ req[r].pc = "open"
    /\ dicomDir' = [dicomDir EXCEPT ![CurFile(r).SOPInstanceUID] = EmptyBlob]
    /\ req' = [req EXCEPT ![r].pc = "write"]
    /\ UNCHANGED <<mode, listing, pixels, patients, studies, images, seq, sess, imageDir, nread, hist>>

\* out_file.write(content): at offset 0 of the file this request opened.
WriteBlob(r) ==
    /\ req[r].pc = "write"
    /\ dicomDir' = IF Buffered(CurFile(r)) THEN dicomDir
                   ELSE [dicomDir EXCEPT ![CurFile(r).SOPInstanceUID] =
                            Overlay(@, UploadBytes(CurFile(r)))]
    /\ req' = [req EXCEPT ![r].pc = "close"]
    /\ UNCHANGED <<mode, listing, pixels, patients, studies, images, seq, sess, imageDir, nread, hist>>

\* Leaving the async with block: the file handle is closed in a worker
\* thread, which writes out what the buffer holds.
CloseBlob(r) ==
    /\ req[r].pc = "close"
    /\ dicomDir' = IF Buffered(CurFile(r))
                   THEN [dicomDir EXCEPT ![CurFile(r).SOPInstanceUID] =
                            Overlay(@, UploadBytes(CurFile(r)))]
                   ELSE dicomDir
    /\ req' = [req EXCEPT ![r].pc = "pixels"]
    /\ UNCHANGED <<mode, listing, pixels, patients, studies, images, seq, sess, imageDir, nread, hist>>

\* The handler goes on after the close: the pixel block runs.
ExtractPixels(r) ==
    /\ req[r].pc = "pixels"
    /\ req' = [req EXCEPT ![r] = AfterPixels(@, CurFile(r))]
    /\ imageDir' = PreviewSaved(CurFile(r))
    /\ UNCHANGED <<mode, listing, pixels, patients, studies, images, seq, sess, dicomDir, nread, hist>>

\* client.post(...) ends, one way or another.
ScoringResponse(r) ==
    /\ req[r].pc = "score"
    /\ \E o \in ScoreOutcomes :
          req' = [req EXCEPT ![r] = [@ EXCEPT !.pc = "selPatient", !.image_score = ScoreOf(o),
                                               !.scoring = IF ScoringFailed(o) THEN "failed" ELSE "scored"]]
    /\ UNCHANGED <<mode, listing, pixels, patients, studies, images, seq, sess, dicomDir, imageDir, nread, hist>>

\* ------------------------------------------------------------- the catalog
\* Rows a session sees: the committed ones and those of its own transaction.
VisiblePatients(r) == patients \cup sess[r].patients
VisibleStudies(r) == studies \cup sess[r].studies
VisibleImages(r) == images \cup sess[r].images

\* .scalars().first() over rows matched on a key: the row with the least
\* primary key, or none.
FirstKey(keys) == IF keys = {} THEN 0 ELSE CHOOSE k \in keys : \A j \in keys : k <= j

\* (variant: the columns are not declared unique)
SameUnique_Undeclared(a, b) == FALSE

\* A unique column: two rows collide when both hold the same non-NULL value.
SameUnique(a, b) == a # NoneVal /\ a = b

\* The rows the handler builds.
PatientRow(key, f) ==
    [ patient_key |-> key, patient_id |-> f.PatientID, patient_sex |-> f.PatientSex,
      patient_birth_date |-> f.PatientBirthDate, patient_age |-> f.PatientAge ]

\* (variant: the study's own key is written into its patient link)
StudyRow_OwnKey(key, patient_key, study_id, f) ==
    [ study_key |-> key, patient_key |-> key, study_id |-> study_id,
      study_uid |-> f.StudyInstanceUID, study_date |-> f.StudyDate, result |-> 0 ]

StudyRow(key, patient_key, study_id, f) ==
    [ study_key |-> key, patient_key |-> patient_key, study_id |-> study_id,
      study_uid |-> f.StudyInstanceUID, study_date |-> f.StudyDate, result |-> 0 ]

\* (variant: the image is keyed by the study's instance UID)
ImageRow_StudyUid(key, study_key, f, score) ==
    [ image_key |-> key, study_key |-> study_key, image_uid |-> f.StudyInstanceUID,
      laterality |-> f.Laterality, score |-> ToInteger(score),
      image_path |-> DicomPath(f.SOPInstanceUID) ]

\* The row that the INSERT of Image(...) makes.
ImageRow(key, study_key, f, score) ==
    [ image_key |-> key, study_key |-> study_key, image_uid |-> f.SOPInstanceUID,
      laterality |-> f.Laterality, score |-> ToInteger(score),
      image_path |-> DicomPath(f.SOPInstanceUID) ]

PatientClash(a, b) == SameUnique(a.patient_id, b.patient_id)
\* (variant: study_uid is not declared unique)
StudyClash_IdOnly(a, b) == SameUnique(a.study_id, b.study_id)
StudyClash(a, b) == SameUnique(a.study_id, b.study_id) \/ SameUnique(a.study_uid, b.study_uid)
ImageClash(a, b) == SameUnique(a.image_uid, b.image_uid)

\* The history once a lookup of request r has found nothing for a key while
\* another request, having found nothing for it either, has yet to create it.
Raced(h, found, others) == IF ~found /\ others # {} THEN [h EXCEPT !.raced = TRUE] ELSE h

\* The history once an INSERT was refused.
Refused(h) == [h EXCEPT !.refused = TRUE]

\* The history once a flush raised DataError while a race was on record.
Crashed(h) == IF h.raced THEN [h EXCEPT !.crashed = TRUE] ELSE h

\* (variant: a patient that is found is overwritten with the file's tags)
SelectPatient_Refresh(r) ==
    /\ req[r].pc = "selPatient"
    /\ LET key == FirstKey({ p.patient_key : p \in
                      { x \in VisiblePatients(r) : x.patient_id = CurFile(r).PatientID } }) IN
       /\ req' = [req EXCEPT ![r] = IF key # 0
                                   THEN [@ EXCEPT !.patient_key = key, !.pc = "selStudy"]
                                   ELSE [@ EXCEPT !.pc = "flushPatient"]]
       /\ hist' = hist
       /\ patients' = { IF p.patient_key = key THEN PatientRow(key, CurFile(r)) ELSE p : p \in patients }
    /\ UNCHANGED <<mode, listing, pixels, studies, images, seq, sess, dicomDir, imageDir, nread>>

\* select(Patient).where(Patient.patient_id == dcm_patient_id) ... first()
SelectPatient(r) ==
    /\ req[r].pc = "selPatient"
    /\ LET key == FirstKey({ p.patient_key : p \in
                      { x \in VisiblePatients(r) : x.patient_id = CurFile(r).PatientID } }) IN
       req' = [req EXCEPT ![r] = IF key # 0
                                   THEN [@ EXCEPT !.patient_key = key, !.pc = "selStudy"]
                                   ELSE [@ EXCEPT !.pc = "flushPatient"]]
       /\ hist' = Raced(hist, key # 0, { q \in Requests \ {r} :
                        /\ req[q].pc = "flushPatient"
                        /\ CurFile(q).PatientID = CurFile(r).PatientID })
    /\ UNCHANGED <<mode, listing, pixels, patients, studies, images, seq, sess, dicomDir, imageDir, nread>>

\* (variant: the INSERT of the patient is committed at once)
FlushPatient_Autocommit(r) ==
    /\ req[r].pc = "flushPatient"
    /\ LET row == PatientRow(seq.patient, CurFile(r)) IN
       /\ seq' = [seq EXCEPT !.patient = @ + 1]
       /\ IF \E p \in patients : PatientClash(row, p)
          THEN /\ req' = [req EXCEPT ![r] = Crash(@, "IntegrityError")]
               /\ sess' = [sess EXCEPT ![r] = EmptySession]
               /\ hist' = Refused(hist)
               /\ patients' = patients
          ELSE /\ req' = [req EXCEPT ![r] = [@ EXCEPT !.patient_key = row.patient_key, !.pc = "selStudy"]]
               /\ sess' = sess
               /\ hist' = hist
               /\ patients' = patients \cup {row}
    /\ UNCHANGED <<mode, listing, pixels, studies, images, dicomDir, imageDir, nread>>

\* db.add(patient); await db.flush(): the INSERT.  It waits while another open
\* transaction holds a row with the same unique value, and fails when a
\* committed row does; the exception ends the handler, get_db closes the
\* session and the transaction is rolled back.
FlushPatient(r) ==
    /\ req[r].pc = "flushPatient"
    /\ LET row == PatientRow(seq.patient, CurFile(r)) IN
       /\ \A q \in Requests \ {r} : \A p \in sess[q].patients : ~PatientClash(row, p)
       /\ seq' = [seq EXCEPT !.patient = @ + 1]
       /\ IF \E p \in patients : PatientClash(row, p)
          THEN /\ req' = [req EXCEPT ![r] = Crash(@, "IntegrityError")]
               /\ sess' = [sess EXCEPT ![r] = EmptySession]
               /\ hist' = Refused(hist)
          ELSE /\ req' = [req EXCEPT ![r] = [@ EXCEPT !.patient_key = row.patient_key, !.pc = "selStudy"]]
               /\ sess' = [sess EXCEPT ![r].patients = @ \cup {row}]
               /\ hist' = hist
    /\ UNCHANGED <<mode, listing, pixels, patients, studies, images, dicomDir, imageDir, nread>>

\* select(Study).where(Study.study_id == study_id) ... first()
SelectStudy(r) ==
    /\ req[r].pc = "selStudy"
    /\ LET key == FirstKey({ s.study_key : s \in
                      { x \in VisibleStudies(r) : x.study_id = req[r].study_id } }) IN
       req' = [req EXCEPT ![r] = IF key # 0
                                   THEN [@ EXCEPT !.study_key = key, !.pc = "selImage"]
                                   ELSE [@ EXCEPT !.pc = "flushStudy"]]
       /\ hist' = Raced(hist, key # 0, { q \in Requests \ {r} :
                        /\ req[q].pc = "flushStudy"
                        /\ req[q].study_id = req[r].study_id })
    /\ UNCHANGED <<mode, listing, pixels, patients, studies, images, seq, sess, dicomDir, imageDir, nread>>

\* db.add(study); await db.flush().  The INSERT also fails when no patient
\* row has the key it refers to.
FlushStudy(r) ==
    /\ req[r].pc = "flushStudy"
    /\ LET row == StudyRow(seq.study, req[r].patient_key, req[r].study_id, CurFile(r)) IN
       /\ \A q \in Requests \ {r} : \A s \in sess[q].studies : ~StudyClash(row, s)
       /\ seq' = [seq EXCEPT !.study = @ + 1]
       /\ IF \/ \E s \in studies : StudyClash(row, s)
             \/ ~\E p \in VisiblePatients(r) : p.patient_key = row.patient_key
          THEN /\ req' = [req EXCEPT ![r] = Crash(@, "IntegrityError")]
               /\ sess' = [sess EXCEPT ![r] = EmptySession]
               /\ hist' = Refused(hist)
          ELSE /\ req' = [req EXCEPT ![r] = [@ EXCEPT !.study_key = row.study_key, !.pc = "selImage"]]
               /\ sess' = [sess EXCEPT ![r].studies = @ \cup {row}]
               /\ hist' = hist
    /\ UNCHANGED <<mode, listing, pixels, patients, studies, images, dicomDir, imageDir, nread>>

\* The Image object of a request's session, as a set of at most one
\* <<image_key, score>>.  The session refers to its objects weakly: it holds
\* an object as long as the handler's variable `image` does, over commits too
\* (expire_on_commit=False).  A query that returns the row of that object
\* returns the object as it is; one that returns another row makes a new
\* object of the row, and the variable lets go of the old one.
Known(loaded) == { u[1] : u \in loaded }
ScoreLoaded(loaded, key) == (CHOOSE u \in loaded : u[1] = key)[2]
Load(loaded, key) ==
    IF key \in Known(loaded) THEN loaded
    ELSE { <<i.image_key, i.score>> : i \in { x \in images : x.image_key = key } }
Bound(key, score) == {<<key, score>>}

\* select(Image).where(Image.image_uid == dcm_image_uid) ... first()
SelectImage(r) ==
    /\ req[r].pc = "selImage"
    /\ LET key == FirstKey({ i.image_key : i \in
                      { x \in VisibleImages(r) : x.image_uid = CurFile(r).SOPInstanceUID } }) IN
       /\ req' = [req EXCEPT ![r] = IF key # 0
                                   THEN [@ EXCEPT !.image_key = key, !.pc = "updateImage",
                                                  !.loaded = Load(@, key)]
                                   ELSE [@ EXCEPT !.pc = "insertImage", !.loaded = {}]]
       /\ hist' = Raced(hist, key # 0, { q \in Requests \ {r} :
                        /\ req[q].pc = "insertImage"
                        /\ CurFile(q).SOPInstanceUID = CurFile(r).SOPInstanceUID })
    /\ UNCHANGED <<mode, listing, pixels, patients, studies, images, seq, sess, dicomDir, imageDir, nread>>

\* image.score = image_score; db.add(image); await db.flush().  When the score
\* is the one the session's object holds, nothing is sent.  A score that is
\* not a number cannot be sent as the value of the Integer column: the driver
\* raises.  Otherwise the UPDATE of the one column is sent: it waits while
\* another open transaction has updated the row, and the flush raises when the
\* row is gone.
UpdateImage(r) ==
    /\ req[r].pc = "updateImage"
    /\ LET key == req[r].image_key
           score == req[r].image_score
           same == score = ScoreLoaded(req[r].loaded, key) IN
       /\ (~same /\ score # TextScore)
             => \A q \in Requests \ {r} : \A u \in sess[q].scores : u[1] # key
       /\ IF same
          THEN /\ req' = [req EXCEPT ![r].pc = "commit"]
               /\ sess' = sess
               /\ hist' = hist
          ELSE IF score = TextScore
          THEN /\ req' = [req EXCEPT ![r] = Crash(@, "DataError")]
               /\ sess' = [sess EXCEPT ![r] = EmptySession]
               /\ hist' = Crashed(hist)
          ELSE IF \E i \in VisibleImages(r) : i.image_key = key
          THEN /\ sess' = [sess EXCEPT ![r].scores =
                              { u \in @ : u[1] # key } \cup {<<key, ToInteger(score)>>}]
               /\ req' = [req EXCEPT ![r] = [@ EXCEPT !.pc = "commit",
                                 !.loaded = Bound(key, req[r].image_score)]]
               /\ hist' = hist
          ELSE /\ req' = [req EXCEPT ![r] = Crash(@, "StaleDataError")]
               /\ sess' = [sess EXCEPT ![r] = EmptySession]
               /\ hist' = hist
    /\ UNCHANGED <<mode, listing, pixels, patients, studies, images, seq, dicomDir, imageDir, nread>>

\* image = Image(...); db.add(image); await db.flush().  A score that is not a
\* number stops the INSERT in the driver, before the server sees it.  The
\* INSERT also fails when no study row has the key it refers to.
InsertImage(r) ==
    /\ req[r].pc = "insertImage"
    /\ LET row == ImageRow(seq.image, req[r].study_key, CurFile(r), req[r].image_score)
           text == req[r].image_score = TextScore IN
       /\ ~text => \A q \in Requests \ {r} : \A i \in sess[q].images : ~ImageClash(row, i)
       /\ seq' = IF text THEN seq ELSE [seq EXCEPT !.image = @ + 1]
       /\ IF text
          THEN /\ req' = [req EXCEPT ![r] = Crash(@, "DataError")]
               /\ sess' = [sess EXCEPT ![r] = EmptySession]
               /\ hist' = Crashed(hist)
          ELSE IF \/ \E i \in images : ImageClash(row, i)
                  \/ ~\E t \in VisibleStudies(r) : t.study_key = row.study_key
          THEN /\ req' = [req EXCEPT ![r] = Crash(@, "IntegrityError")]
               /\ sess' = [sess EXCEPT ![r] = EmptySession]
               /\ hist' = Refused(hist)
          ELSE /\ req' = [req EXCEPT ![r] = [@ EXCEPT !.image_key = row.image_key, !.pc = "commit",
                                            !.loaded = Bound(row.image_key, req[r].image_score)]]
               /\ sess' = [sess EXCEPT ![r].images = @ \cup {row}]
               /\ hist' = hist
    /\ UNCHANGED <<mode, listing, pixels, patients, studies, images, dicomDir, imageDir, nread>>

\* (variant: the update also rewrites the path, as the log line says)
WithScores_NewPath(rows, scores) ==
    { IF \E u \in scores : u[1] = i.image_key
      THEN [i EXCEPT !.score = (CHOOSE u \in scores : u[1] = i.image_key)[2],
                     !.image_path = DicomPath(i.image_uid \o "-" \o "new")]
      ELSE i : i \in rows }

\* The image table once a transaction's score updates are applied.
WithScores(rows, scores) ==
    { IF \E u \in scores : u[1] = i.image_key
      THEN [i EXCEPT !.score = (CHOOSE u \in scores : u[1] = i.image_key)[2]]
      ELSE i : i \in rows }

\* (variant: the entry carries the study's key)
FileInfo_StudyKey(rq, f) ==
    [ image_key |-> rq.study_key, file_name |-> DicomName(f.SOPInstanceUID), score |-> rq.image_score ]

\* The entry of the response for the file just committed.
FileInfo(rq, f) ==
    [ image_key |-> rq.image_key, file_name |-> DicomName(f.SOPInstanceUID), score |-> rq.image_score ]

\* The history after the commit of file f by a request with locals rq: the
\* natural keys committed files carried, the patient_id of the first committed
\* file of each study_id, the identifiers returned for each image_uid, and how
\* often each image_uid was committed.
Committed(h, rq, f) ==
    [ patient_ids |-> h.patient_ids \cup {f.PatientID},
      study_ids |-> h.study_ids \cup {rq.study_id},
      image_uids |-> h.image_uids \cup {f.SOPInstanceUID},
      owner |-> IF h.owner[rq.study_id] = NoneVal
                THEN [h.owner EXCEPT ![rq.study_id] = f.PatientID] ELSE h.owner,
      returned |-> [h.returned EXCEPT ![f.SOPInstanceUID] = @ \cup {FileInfo(rq, f).image_key}],
      ingests |-> [h.ingests EXCEPT ![f.SOPInstanceUID] = @ + 1],
      raced |-> h.raced, refused |-> h.refused, crashed |-> h.crashed ]

\* await db.commit(), then stored_files_info.append(...) and back to the loop.
Commit(r) ==
    /\ req[r].pc = "commit"
    /\ patients' = patients \cup sess[r].patients
    /\ studies' = studies \cup sess[r].studies
    /\ images' = WithScores(images, sess[r].scores) \cup sess[r].images
    /\ sess' = [sess EXCEPT ![r] = EmptySession]
    /\ req' = [req EXCEPT ![r] =
                 [@ EXCEPT !.pc = "loop",
                           !.stored_files_info = Append(@, FileInfo(req[r], CurFile(r))),
                           !.image_score = DEFAULT_SCORE,
                           !.patient_key = 0, !.study_key = 0, !.image_key = 0]]
    /\ hist' = Committed(hist, req[r], CurFile(r))
    /\ UNCHANGED <<mode, listing, pixels, seq, dicomDir, imageDir, nread>>

\* The response has been sent; the slot is free for the next request.
Finish(r) ==
    /\ req[r].pc \in {"done", "failed"}
    /\ req' = [req EXCEPT ![r] = IdleRequest]
    /\ UNCHANGED <<mode, listing, pixels, patients, studies, images, seq, sess, dicomDir, imageDir, nread, hist>>

\* ------------------------------------------------------- the list query
\* The attributes an ORM object of each class has: its columns and its
\* relationships.
Columns ==
    [ patient |-> {"patient_key", "patient_id", "patient_sex", "patient_birth_date",
                   "patient_age", "created_date", "studies"},
      study |-> {"study_key", "patient_key", "study_id", "study_uid", "study_date",
                 "result", "created_date", "patient", "images"},
      image |-> {"image_key", "study_key", "image_uid", "laterality", "score",
                 "image_path", "created_date", "study"} ]

\* The fields each response schema declares without a default.
RequiredFields ==
    [ patient |-> {"patient_key", "patient_id", "patient_sex", "patient_birth_date",
                   "patient_age", "created_date"},
      study |-> {"study_key", "study_id", "study_uid", "study_date", "result",
                 "created_date", "updated_date", "patient"},
      image |-> {"image_key", "image_uid", "laterality", "score", "image_path",
                 "created_date", "updated_date"} ]

\* selectinload(Study.patient), selectinload(Study.images): the rows a study
\* is loaded with.
PatientOf(s) == { p \in patients : p.patient_key = s.patient_key }
ImagesOf(s) == { i \in images : i.study_key = s.study_key }

\* model_validate(obj) with from_attributes: every required field is read off
\* the object as an attribute, and a str field refuses None.
ValidPatient(p) ==
    /\ RequiredFields.patient \subseteq Columns.patient
    /\ NoneVal \notin {p.patient_id, p.patient_sex, p.patient_birth_date}
ValidImage(i) ==
    /\ RequiredFields.image \subseteq Columns.image
    /\ NoneVal \notin {i.image_uid, i.laterality, i.image_path}
ValidStudy(s) ==
    /\ RequiredFields.study \subseteq Columns.study
    /\ NoneVal \notin {s.study_id, s.study_uid, s.study_date}
    /\ PatientOf(s) # {} /\ \A p \in PatientOf(s) : ValidPatient(p)
    /\ \A i \in ImagesOf(s) : ValidImage(i)

\* The StudySchema made of a study: its fields, its patient and its images.
StudyView(s) ==
    [ study_key |-> s.study_key, study_id |-> s.study_id, study_uid |-> s.study_uid,
      study_date |-> s.study_date, result |-> s.result,
      patient |-> PatientOf(s), images |-> ImagesOf(s) ]

\* GET /dicom-web/study: every study is loaded and validated inside the try;
\* any exception becomes a 500 whose detail starts with "Database Error".
QueryStudies ==
    /\ listing = NoListing
    /\ mode = "serial" => \A r \in Requests : req[r].pc \in {"idle", "done", "failed"}
    /\ listing' = IF \A s \in studies : ValidStudy(s)
                  THEN [status |-> 200, detail |-> "", body |-> { StudyView(s) : s \in studies }]
                  ELSE [status |-> 500, detail |-> "Database Error", body |-> {}]
    /\ UNCHANGED <<mode, pixels, patients, studies, images, seq, sess, dicomDir, imageDir, req, nread, hist>>

\* The answer has been sent.
DeliverListing ==
    /\ listing # NoListing
    /\ listing' = NoListing
    /\ UNCHANGED <<mode, pixels, patients, studies, images, seq, sess, dicomDir, imageDir, req, nread, hist>>

\* ---------------------------------------------------- deleting a patient
\* The studies whose patient_key is k, and the images whose study_key is the
\* key of one of the studies ss: the rows ON DELETE CASCADE reaches.
Owned(k) == { s \in studies : s.patient_key = k }

\* (variant: the image's link to its study does not cascade)
Under_NoCascade(ss) == {}

Under(ss) == { i \in images : \E s \in ss : i.study_key = s.study_key }

\* DELETE of the patient row with key k, in a transaction of its own.  It
\* waits while an open transaction holds a row that refers to the patient or
\* to one of its studies, or has updated one of their images.
DeletePatient(k) ==
    /\ \E p \in patients : p.patient_key = k
    /\ \A q \in Requests :
          /\ \A s \in sess[q].studies : s.patient_key # k
          /\ \A i \in sess[q].images : \A s \in Owned(k) : i.study_key # s.study_key
          /\ \A u \in sess[q].scores : \A i \in Under(Owned(k)) : u[1] # i.image_key
    /\ patients' = { p \in patients : p.patient_key # k }
    /\ studies' = studies \ Owned(k)
    /\ images' = images \ Under(Owned(k))
    /\ UNCHANGED <<mode, listing, pixels, seq, sess, dicomDir, imageDir, req, nread, hist>>

Next ==
    \E r \in Requests :
        \/ StartRequest(r) \/ BeginFile(r) \/ Respond(r) \/ ValidateFile(r)
        \/ OpenBlob(r) \/ WriteBlob(r) \/ CloseBlob(r) \/ ExtractPixels(r) \/ ScoringResponse(r)
        \/ SelectPatient(r) \/ FlushPatient(r) \/ SelectStudy(r) \/ FlushStudy(r)
        \/ SelectImage(r) \/ UpdateImage(r) \/ InsertImage(r) \/ Commit(r) \/ Finish(r)

Spec == Init /\ [][Next]_vars
SpecConc == InitConc /\ [][Next]_vars

\* Overlapping requests with the uploads of a race.
SpecRace == InitRace /\ [][Next]_vars

\* Requests one after another, and list queries between them.
NextQuery == Next \/ QueryStudies \/ DeliverListing
SpecQuery == Init /\ [][NextQuery]_vars

\* ------------------------------------------------- the 8-bit preview image
\* The element types of a decoded pixel array and samples of each: the ends
\* of the range and values between them.
PixelTypes == {"uint8", "uint16", "int16"}
SampleValues(t) ==
    IF t = "uint8" THEN {0, 10, 15, 20, 255}
    ELSE IF t = "uint16" THEN {0, 10, 15, 20, 65535}
    ELSE {-32768, -31999, 0, 10, 15, 20, 32765, 32767}

\* The sequences of n samples of type t.
RECURSIVE Arrays(_, _)
Arrays(t, n) ==
    IF n = 0 THEN {<<>>}
    ELSE { Append(a, v) : a \in Arrays(t, n - 1), v \in SampleValues(t) }

MinOf(a) == CHOOSE v \in { a[k] : k \in DOMAIN a } : \A k \in DOMAIN a : v <= a[k]
MaxOf(a) == CHOOSE v \in { a[k] : k \in DOMAIN a } : \A k \in DOMAIN a : v >= a[k]

\* Arithmetic in the array's element type: the result wraps to its 16 bits.
Wrap(t, x) ==
    IF t = "int16" THEN ((x + 32768) % 65536) - 32768 ELSE x % 65536

\* The integer part of num / den, den # 0: what a cast to an integer keeps.
Truncate(num, den) ==
    LET n == IF num < 0 THEN 0 - num ELSE num
        d == IF den < 0 THEN 0 - den ELSE den IN
    IF (num < 0) = (den < 0) THEN n \div d ELSE 0 - (n \div d)

Abs(x) == IF x < 0 THEN 0 - x ELSE x

RECURSIVE Pow2(_)
Pow2(k) == IF k = 0 THEN 1 ELSE 2 * Pow2(k - 1)

\* The binary exponent of n / d, for n, d > 0: the e with 2^e <= n / d < 2^(e+1).
RECURSIVE Exponent(_, _)
Exponent(n, d) ==
    IF n >= 2 * d THEN Exponent(n, 2 * d) + 1
    ELSE IF n < d THEN Exponent(2 * n, d) - 1
    ELSE 0

\* (r * 2^k) % d
RECURSIVE Doubled(_, _, _)
Doubled(r, d, k) == IF k = 0 THEN r ELSE Doubled((2 * r) % d, d, k - 1)

\* The float64 arithmetic of (n / d) * 255, for 16-bit n, d > 0.  The quotient
\* is rounded to 53 significant bits and so is the product.  The result has
\* the integer part of the exact n * 255 / d, but for one case: the exact
\* value is an integer, the quotient was rounded down by more than 64/255 of
\* the unit of its last bit (r / d is the part of that unit that is cut off),
\* and the product lies where float64 values are 128 of those units apart (up
\* to 2^(e+8)).  Then the product is rounded to the float64 just below the
\* integer.
FallsShort(n, d) ==
    /\ n > 0 /\ (n * WhiteLevel) % d = 0
    /\ LET e == Exponent(n, d)
           r == Doubled(n % d, d, 52 - e) IN
       /\ 2 * r < d /\ WhiteLevel * r > 64 * d
       /\ IF e >= 0 THEN WhiteLevel * n <= (WhiteLevel + 1) * Pow2(e) * d
          ELSE WhiteLevel * n * Pow2(0 - e) <= (WhiteLevel + 1) * d

\* (v - min) / (max - min) * 255 of one sample: the subtractions are done in
\* the element type, the rest in float64.  The value is given as the exact
\* fraction num / den and whether the float64 result is the value just below
\* it, towards zero.
Scaled(t, a, v) ==
    LET n == Wrap(t, v - MinOf(a))
        d == Wrap(t, MaxOf(a) - MinOf(a)) IN
    [num |-> n * WhiteLevel, den |-> d, short |-> d # 0 /\ FallsShort(Abs(n), Abs(d))]

\* .astype('uint8') of the scaled sample: its integer part when that is a
\* byte.  The cast of a value outside the byte range, or of the NaN that a
\* flat array gives, is undefined: builds wrap modulo 256 or saturate.
Bytes(t, a, v) ==
    LET q == Scaled(t, a, v) IN
    IF q.den = 0 THEN {0}
    ELSE LET x == Truncate(q.num, q.den)
             y == IF ~q.short THEN x ELSE IF x < 0 THEN x + 1 ELSE x - 1 IN
         IF y >= 0 /\ y <= WhiteLevel THEN {y}
         ELSE {y % (WhiteLevel + 1), IF y < 0 THEN 0 ELSE WhiteLevel}

\* The images that lines 112-114 can make of array a of type t: an 8-bit
\* unsigned array is taken as it is.
RECURSIVE Images(_, _, _)
Images(t, a, n) ==
    IF n = 0 THEN {<<>>}
    ELSE { Append(i, b) : i \in Images(t, a, n - 1),
                          b \in (IF t = "uint8" THEN {a[n]} ELSE Bytes(t, a, a[n])) }

\* A decoded pixel array is at hand.
InitPixels ==
    /\ mode = "pixels"
    /\ patients = {} /\ studies = {} /\ images = {}
    /\ seq = [patient |-> 1, study |-> 1, image |-> 1]
    /\ sess = [r \in Requests |-> EmptySession]
    /\ dicomDir = [u \in ImageUids |-> NoBlob]
    /\ imageDir = [u \in ImageUids |-> NoImage]
    /\ req = [r \in Requests |-> IdleRequest]
    /\ nread = 0
    /\ hist = EmptyHistory
    /\ listing = NoListing
    /\ \E t \in PixelTypes : \E a \in Arrays(t, PixelCount) :
          pixels = [dtype |-> t, samples |-> a, image |-> <<>>]

\* if pixel_array.dtype != 'uint8': normalise; then the cast to 'uint8'.
NormalizePixels ==
    /\ pixels.samples # <<>> /\ pixels.image = <<>>
    /\ \E i \in Images(pixels.dtype, pixels.samples, Len(pixels.samples)) :
          pixels' = [pixels EXCEPT !.image = i]
    /\ UNCHANGED <<mode, listing, patients, studies, images, seq, sess, dicomDir, imageDir, req, nread, hist>>

NextPixels == NormalizePixels
SpecPixels == InitPixels /\ [][NextPixels]_vars

\* The validator applied to one file.
NextValidate == \E r \in Requests : ValidateFile(r)
SpecValidate == InitValidate /\ [][NextValidate]_vars

\* Requests one after another while patients are deleted, at any step.
NextDelete == Next \/ \E p \in patients : DeletePatient(p.patient_key)
SpecDelete == InitDelete /\ [][NextDelete]_vars

\* =================================================================== claims
RowsOfPatient(pid) == { p \in patients : p.patient_id = pid }
RowsOfStudy(sid) == { s \in studies : s.study_id = sid }
RowsOfImage(uid) == { i \in images : i.image_uid = uid }

\* A value that is absent or empty.
Absent(v) == v \in {NoneVal, ""}

\* C1: when requests run one after another, the committed catalog holds
\* exactly one Patient row per patient_id, one Study row per study_id and one
\* Image row per image_uid that a committed file carried, and no other row,
\* however often a key was ingested again.
C1_NaturalKeyUniqueness ==
    /\ \A pid \in hist.patient_ids : Cardinality(RowsOfPatient(pid)) = 1
    /\ \A sid \in hist.study_ids : Cardinality(RowsOfStudy(sid)) = 1
    /\ \A uid \in hist.image_uids : Cardinality(RowsOfImage(uid)) = 1
    /\ Cardinality(patients) = Cardinality(hist.patient_ids)
    /\ Cardinality(studies) = Cardinality(hist.study_ids)
    /\ Cardinality(images) = Cardinality(hist.image_uids)

\* Three files were committed, all of one patient and one study, two of them
\* the same image.
C1_Witness ==
    /\ hist.ingests["U1"] = 2 /\ hist.ingests["U2"] = 1
    /\ Cardinality(patients) = 1 /\ Cardinality(studies) = 1 /\ Cardinality(images) = 2

\* C2: every ingestion of an image_uid returns one and the same image_key, the
\* key of the single Image row of that image_uid.
C2_IdempotentReingestion ==
    \A uid \in ImageUids :
        hist.ingests[uid] > 0 =>
            /\ Cardinality(RowsOfImage(uid)) = 1
            /\ hist.returned[uid] = { i.image_key : i \in RowsOfImage(uid) }

\* The same file was committed three times: by an earlier request, and twice
\* in the batch of the request at hand, which got the same identifier twice.
C2_Witness ==
    \E r \in Requests :
        /\ Len(req[r].stored_files_info) = 2
        /\ req[r].files[1] = req[r].files[2]
        /\ req[r].stored_files_info[1].image_key = req[r].stored_files_info[2].image_key
        /\ hist.ingests[req[r].files[1].SOPInstanceUID] = 3
        /\ Cardinality(images) = 1

\* C3: a file that has the wrong media type, cannot be decoded, carries another
\* StudyID than the path or lacks a mandatory field is the last file its request
\* reads; the files before it are committed (their rows are in the catalog and
\* their entries in stored_files_info), the request holds no uncommitted row,
\* and no step taken while such a file is at hand changes the catalog, a
\* session, a sequence or either storage directory.
Defective(f, study_id) ==
    \/ f.content_type # "application/dicom"
    \/ ~f.readable
    \/ Absent(f.StudyID) \/ f.StudyID # study_id
    \/ \E k \in 1..Len(MandatoryFields) : Absent(f[MandatoryFields[k]])

FileCommitted(r, j) ==
    LET f == req[r].files[j] IN
    /\ RowsOfPatient(f.PatientID) # {}
    /\ RowsOfStudy(req[r].study_id) # {}
    /\ \E i \in RowsOfImage(f.SOPInstanceUID) : i.image_key = req[r].stored_files_info[j].image_key

C3_State ==
    \A r \in Requests : \A k \in 1..Len(req[r].files) :
        Defective(req[r].files[k], req[r].study_id) =>
            /\ k = Len(req[r].files)
            /\ req[r].pc \in {"read", "failed"}
            /\ req[r].pc = "failed" => req[r].status \in {415, 400}
            /\ Len(req[r].stored_files_info) = k - 1
            /\ \A j \in 1..(k - 1) : FileCommitted(r, j)
            /\ sess[r] = EmptySession
            /\ req[r].scoring = "unset"

C3_Step ==
    \A r \in Requests :
        (/\ req'[r].files # <<>>
         /\ Defective(req'[r].files[Len(req'[r].files)], req'[r].study_id))
        => UNCHANGED <<patients, studies, images, sess, seq, dicomDir, imageDir, hist>>

\* C3: the state part holds in every state and the step part of every step.
C3_FailFast == [](C3_State) /\ [][C3_Step]_vars

\* A batch of three files stopped at its second file, which failed validation;
\* the first file's rows are committed.
C3_Witness ==
    \E r \in Requests :
        /\ req[r].pc = "failed" /\ req[r].status = 400
        /\ req[r].nfiles = 3 /\ Len(req[r].files) = 2
        /\ Len(req[r].stored_files_info) = 1
        /\ FileCommitted(r, 1)
        /\ Cardinality(images) = 1

\* C4: a file that lacks exactly one of the five mandatory tags (and is sound
\* otherwise) is rejected with status 400 naming that tag; while it is at hand
\* its request flushes and commits nothing, and it is the last file the request
\* reads.
LacksExactly(f, study_id, field) ==
    /\ f.content_type = "application/dicom" /\ f.readable /\ f.StudyID = study_id
    /\ \A k \in 1..Len(MandatoryFields) :
          Absent(f[MandatoryFields[k]]) <=> MandatoryFields[k] = field

C4_Step ==
    \A r \in Requests : \A k \in 1..Len(MandatoryFields) :
        LET rq == req'[r] IN
        (rq.files # <<>> /\ LacksExactly(rq.files[Len(rq.files)], rq.study_id, MandatoryFields[k]))
        => /\ rq.pc \in {"read", "failed"}
           /\ rq.pc = "failed" => rq.status = 400 /\ rq.detail = "missing " \o MandatoryFields[k]
           /\ req[r].pc = "failed" => rq = req[r]
           /\ UNCHANGED <<patients, studies, images, sess, seq>>

\* C4: every step treats a file that lacks exactly one mandatory tag this way.
C4_ValidationTotality == [][C4_Step]_vars

\* A file without Laterality, the tag checked last, was rejected after an
\* earlier file of the batch was committed, with another file still unread.
C4_Witness ==
    \E r \in Requests :
        /\ req[r].pc = "failed" /\ req[r].detail = "missing Laterality"
        /\ Len(req[r].files) = 2 /\ req[r].nfiles = 3
        /\ Absent(req[r].files[2].Laterality)
        /\ Len(req[r].stored_files_info) = 1

\* C5: the commit of a file whose image_uid the catalog already holds replaces
\* the score of that Image row by the file's score and changes nothing else in
\* the image table: the row keeps its key, path, laterality and Study, also
\* when the file names another study_id or patient_id than the row's creator.
Rescored(rows, uid, score) ==
    { IF i.image_uid = uid THEN [i EXCEPT !.score = score] ELSE i : i \in rows }

C5_Step ==
    \A r \in Requests :
        (/\ req[r].pc = "commit" /\ req'[r].pc = "loop"
         /\ RowsOfImage(CurFile(r).SOPInstanceUID) # {})
        => images' = Rescored(images, CurFile(r).SOPInstanceUID, ToInteger(req[r].image_score))

\* C5: every commit of a known image_uid changes the score of its row only.
C5_ReingestChangesScoreOnly == [][C5_Step]_vars

\* Image U1, created with score 1 in study S1 of patient P1, was ingested again
\* by a request for study S2 with a file of patient P2 and score 0.0: the row
\* has the new score and still belongs to S1.
C5_Witness ==
    \E r \in Requests :
        /\ req[r].pc = "loop" /\ req[r].study_id = "S2"
        /\ Len(req[r].files) = 1 /\ Len(req[r].stored_files_info) = 1
        /\ req[r].files[1] = GoodFile("P2", "S2", "U1")
        /\ req[r].stored_files_info[1].score = 0
        /\ hist.ingests["U1"] = 2 /\ hist.owner["S1"] = "P1"
        /\ \E i \in RowsOfImage("U1") : \E s \in RowsOfStudy("S1") :
              /\ i.study_key = s.study_key /\ i.score = 0
              /\ i.image_path = "storage/dicom/U1.dcm"
        /\ RowsOfStudy("S2") # {} /\ RowsOfPatient("P2") # {}

\* C6: the Patient a Study row links to is the Patient row of the patient_id
\* that the first committed file of that study_id carried.
C6_StudyOwnerFixed ==
    \A s \in studies :
        /\ hist.owner[s.study_id] # NoneVal
        /\ \E p \in RowsOfPatient(hist.owner[s.study_id]) : p.patient_key = s.patient_key

\* A batch for one study committed a file of patient P1 and then a file of
\* patient P2: both patients exist, the study still links to P1.
C6_Witness ==
    \E r \in Requests :
        /\ Len(req[r].stored_files_info) = 2
        /\ req[r].files[1].PatientID = "P1" /\ req[r].files[2].PatientID = "P2"
        /\ \E s \in RowsOfStudy(req[r].study_id) : \E p \in RowsOfPatient("P1") :
              s.patient_key = p.patient_key
        /\ RowsOfPatient("P2") # {}

\* C7 as claimed: a file whose POST to the prediction service did not yield a
\* numeric score (no response, error status, malformed or non-object JSON,
\* "score" absent, null or not a number) has image_score 0.0 from then on and
\* is not failed for it (its request can only fail later on a constraint of
\* the catalog); when it commits, the score of its Image row and of its
\* response entry is 0.0.
C7_Step ==
    \A r \in Requests :
        req'[r].scoring = "failed" =>
            /\ req'[r].pc \in {"selPatient", "flushPatient", "selStudy", "flushStudy", "selImage",
                               "updateImage", "insertImage", "commit", "loop", "done", "failed"}
            /\ req'[r].pc = "failed" => req'[r].status = 500 /\ req'[r].error = "IntegrityError"
            /\ req'[r].pc \notin {"loop", "done", "failed"} => req'[r].image_score = 0
            /\ (req[r].pc = "commit" /\ req'[r].pc = "loop") =>
                  /\ \A i \in { x \in images' : x.image_uid = CurFile(r).SOPInstanceUID } : i.score = 0
                  /\ { x \in images' : x.image_uid = CurFile(r).SOPInstanceUID } # {}
                  /\ req'[r].stored_files_info[Len(req'[r].stored_files_info)].score = 0

\* C7: every step treats a file whose scoring failed this way.
C7_ScoringFallback == [][C7_Step]_vars


\* C8: once the bytes of an upload are on disk under an image_uid, no
\* ingestion changes them.  (Stated for all requests, concurrent ones included.)
C8_Step ==
    \A u \in ImageUids :
        dicomDir[u] \notin {NoBlob, EmptyBlob} => dicomDir'[u] = dicomDir[u]

\* C8: no step changes the bytes of a written blob.
C8_BlobWriteOnce == [][C8_Step]_vars

\* C9 as claimed: the output of a request that aborted at file k is the list
\* of the entries of files 1..k-1.
C9_OutputListsCommitted ==
    \A r \in Requests :
        req[r].pc = "failed" =>
            /\ Len(req[r].body) = Len(req[r].files) - 1
            /\ req[r].body = req[r].stored_files_info

\* C9 as amended: a request that aborted at file k answers with the error
\* alone and no entry.  When file k failed a check of the handler the error is
\* the HTTPException of that check: 415 for a wrong media type, else 400 with
\* the detail of the first check the file fails.  When a flush raised, the
\* exception is not caught and the answer is status 500 without a detail.  The
\* entries of files 1..k-1, in input order, are in the local list
\* stored_files_info, which is dropped, and the rows of these files are
\* committed.
C9_AbortSendsErrorOnly ==
    \A r \in Requests :
        req[r].pc = "failed" =>
            /\ req[r].body = <<>>
            /\ IF req[r].error = "HTTPException"
               THEN IF CurFile(r).content_type # DICOM_MEDIA_TYPE
                    THEN req[r].status = 415 /\ req[r].detail = "Unsupported Media Type"
                    ELSE /\ req[r].status = 400
                         /\ req[r].detail = Validate(CurFile(r), req[r].study_id)
                         /\ req[r].detail # ""
               ELSE /\ req[r].status = 500 /\ req[r].detail = ""
                    /\ req[r].error \in {"IntegrityError", "DataError", "StaleDataError"}
            /\ Len(req[r].stored_files_info) = Len(req[r].files) - 1
            /\ \A j \in 1..Len(req[r].stored_files_info) :
                  /\ req[r].stored_files_info[j].file_name = req[r].files[j].SOPInstanceUID \o ".dcm"
                  /\ FileCommitted(r, j)

\* A request aborted at its third file, by a flush that raised, after
\* committing two.
C9_Witness ==
    \E r \in Requests :
        /\ req[r].pc = "failed" /\ Len(req[r].files) = 3
        /\ Len(req[r].stored_files_info) = 2 /\ req[r].body = <<>>
        /\ req[r].status = 500 /\ req[r].detail = ""

\* C10 as claimed: while a request has committed every file it has read, its
\* list holds one entry per file read, in input order; each entry names the
\* file's blob and carries the image_key of the Image row of the file's
\* image_uid, and the entry of the last file of each image_uid carries the
\* score that row has.
\* The response of a request that read its whole list is status 200 with that
\* list, one entry per uploaded file.
LastOf(fs, j) == \A k \in (j + 1)..Len(fs) : fs[k].SOPInstanceUID # fs[j].SOPInstanceUID

C10_ResponseMatchesCatalog ==
    \A r \in Requests :
        req[r].pc \in {"loop", "done"} =>
            LET fs == req[r].files
                info == req[r].stored_files_info IN
            /\ Len(info) = Len(fs)
            /\ \A j \in 1..Len(fs) :
                  /\ info[j].file_name = fs[j].SOPInstanceUID \o ".dcm"
                  /\ \E i \in RowsOfImage(fs[j].SOPInstanceUID) :
                        /\ info[j].image_key = i.image_key
                        /\ LastOf(fs, j) => info[j].score = i.score
            /\ req[r].pc = "done" =>
                  /\ req[r].status = 200 /\ req[r].body = info
                  /\ Len(req[r].body) = req[r].nfiles


\* The requests whose one file, well formed and with a pixel payload, is the
\* only file the catalog has ever taken in.
FirstIngestDone(r) ==
    /\ req[r].pc = "done" /\ Len(req[r].files) = 1 /\ Len(req[r].body) = 1
    /\ req[r].files[1].PixelData = "ok"
    /\ \A u \in ImageUids :
          hist.ingests[u] = (IF u = req[r].files[1].SOPInstanceUID THEN 1 ELSE 0)

\* C11: after one well-formed file with a pixel payload has been ingested
\* into an empty catalog, a list query succeeds and returns exactly one Study
\* that nests its Patient and exactly one Image, whose score is the score of
\* the POST response.
C11_ListingShowsIngested ==
    \A r \in Requests :
        FirstIngestDone(r) /\ listing # NoListing
        => /\ listing.status = 200
           /\ Cardinality(listing.body) = 1
           /\ \A v \in listing.body :
                 /\ v.study_id = req[r].study_id
                 /\ Cardinality(v.patient) = 1
                 /\ \A p \in v.patient : p.patient_id = req[r].files[1].PatientID
                 /\ Cardinality(v.images) = 1
                 /\ \A i \in v.images :
                       /\ i.image_uid = req[r].files[1].SOPInstanceUID
                       /\ i.score = req[r].body[1].score

\* Every link of the catalog leads to a row.
RefIntegrity ==
    /\ \A i \in images : \E s \in studies : s.study_key = i.study_key
    /\ \A s \in studies : \E p \in patients : p.patient_key = s.patient_key

\* A step that removes a patient row leaves no study of that patient and no
\* image under such a study.
C12_Step ==
    \A p \in patients :
        p \notin patients'
        => /\ \A s \in studies' : s.patient_key # p.patient_key
           /\ \A i \in images' :
                 \A s \in studies : s.patient_key = p.patient_key => i.study_key # s.study_key

\* C12: deleting a Patient removes every Study it owns and every Image under
\* those Studies, so that in every reachable state each Image's study_key is
\* the key of a Study and each Study's patient_key is the key of a Patient.
C12_CascadeKeepsLinks == [](RefIntegrity) /\ [][C12_Step]_vars

\* A patient with a study and an image was ingested and then deleted, and
\* another patient's rows are in the catalog.
C12_Witness ==
    /\ hist.image_uids = ImageUids
    /\ Cardinality(patients) = 1 /\ Cardinality(studies) = 1 /\ Cardinality(images) = 1

\* The file has no preview: no pixel payload, or one that cannot be turned
\* into an image.
NoPreview(f) == f.PixelData # "ok"

\* C13: a file with no preview is never sent to the prediction service: no
\* scoring call is in flight or answered for it, its score is 0.0 from the
\* pixel block to the response entry, and only a defect of the file or a
\* persistence error, never the lack of a preview, ends its ingestion.
C13_NoPreviewNoScoring ==
    \A r \in Requests :
        /\ \A j \in 1..Len(req[r].stored_files_info) :
              NoPreview(req[r].files[j]) => req[r].stored_files_info[j].score = 0
        /\ (req[r].files # <<>> /\ NoPreview(CurFile(r))) =>
              /\ req[r].pc # "score"
              /\ req[r].scoring \in {"unset", "skipped"}
              /\ req[r].pc \in {"selPatient", "flushPatient", "selStudy", "flushStudy",
                                "selImage", "updateImage", "insertImage", "commit"}
                 => req[r].image_score = 0 /\ req[r].scoring = "skipped"
              /\ req[r].pc = "failed"
                 => Defective(CurFile(r), req[r].study_id) \/ req[r].status = 500

\* One request has committed a file whose pixel payload could not be decoded
\* and a file without pixel payload, each with score 0, after a scored file.
C13_Witness ==
    \E r \in Requests :
        /\ req[r].pc = "done" /\ Len(req[r].body) = 3
        /\ req[r].files[1].PixelData = "ok" /\ req[r].body[1].score = ScoreUnit
        /\ req[r].files[2].PixelData = "bad" /\ req[r].body[2].score = 0
        /\ req[r].files[3].PixelData = "none" /\ req[r].body[3].score = 0
        /\ \E i \in RowsOfImage(req[r].files[3].SOPInstanceUID) : i.score = 0
        /\ \E i \in RowsOfImage(req[r].files[2].SOPInstanceUID) : i.score = 0

\* No request is between its first and its last step.
Quiescent == \A r \in Requests : req[r].pc \in {"idle", "done", "failed"}

\* Two requests are about to create a row for the same patient_id, which each
\* of them looked up and did not find.
BothFoundNothing ==
    \E r \in Requests : \E q \in Requests \ {r} :
        /\ req[r].pc = "flushPatient" /\ req[q].pc = "flushPatient"
        /\ CurFile(r).PatientID = CurFile(q).PatientID
        /\ RowsOfPatient(CurFile(r).PatientID) = {}
        /\ sess[r].patients = {} /\ sess[q].patients = {}

C15_State ==
    \A r \in Requests :
        (req[r].pc = "failed" /\ req[r].status = 500) =>
            /\ sess[r] = EmptySession
            /\ CurFile(r).PatientID \notin hist.patient_ids => RowsOfPatient(CurFile(r).PatientID) = {}
            /\ req[r].study_id \notin hist.study_ids => RowsOfStudy(req[r].study_id) = {}
            /\ CurFile(r).SOPInstanceUID \notin hist.image_uids
               => RowsOfImage(CurFile(r).SOPInstanceUID) = {}
            /\ Len(req[r].stored_files_info) = Len(req[r].files) - 1
            /\ \A j \in 1..Len(req[r].stored_files_info) : FileCommitted(r, j)

\* The committed catalog changes only in the step that commits a file; the
\* step in which the upsert fails leaves it as it is and ends the batch.
C15_Step ==
    /\ <<patients, studies, images>>' # <<patients, studies, images>>
       => \E r \in Requests :
             /\ req[r].pc = "commit" /\ req'[r].pc = "loop"
             /\ Len(req'[r].stored_files_info) = Len(req[r].stored_files_info) + 1
    /\ \A r \in Requests :
          /\ (req'[r].pc = "failed" /\ req[r].pc # "failed" /\ req'[r].status = 500)
             => /\ UNCHANGED <<patients, studies, images>>
                /\ req'[r].stored_files_info = req[r].stored_files_info
          /\ req[r].pc = "failed" => req'[r].pc \in {"failed", "idle"}

\* C15: the catalog mutations of a file are all-or-nothing: when a step of
\* the upsert fails with a persistence error, no row created for the file is
\* committed, the batch stops, and the committed catalog is what the previous
\* commit left.
C15_AllOrNothing == [](C15_State) /\ [][C15_Step]_vars

\* A request's file created a patient row and was then refused for its
\* study_uid, which an earlier request's study holds: the patient sequence
\* has moved on, the row is not there, and the earlier commit stands.
C15_Witness ==
    \E r \in Requests :
        /\ req[r].pc = "failed" /\ req[r].status = 500 /\ req[r].body = <<>>
        /\ CurFile(r).PatientID = "P2" /\ RowsOfPatient("P2") = {}
        /\ seq.patient = 3 /\ Cardinality(patients) = 1
        /\ RowsOfStudy(req[r].study_id) = {}
        /\ \E t \in studies : t.study_uid = CurFile(r).StudyInstanceUID
        /\ Cardinality(images) = 1

\* C16: in every interleaving of concurrent requests the committed catalog
\* never holds two Patient rows with one patient_id, two Study rows with one
\* study_id or one study_uid, or two Image rows with one image_uid.
C16_NoDuplicateKeys ==
    /\ \A a \in patients : \A b \in patients : a.patient_id = b.patient_id => a = b
    /\ \A a \in studies : \A b \in studies :
          (a.study_id = b.study_id \/ a.study_uid = b.study_uid) => a = b
    /\ \A a \in images : \A b \in images : a.image_uid = b.image_uid => a = b

\* Two requests were in flight together; one committed a study and the other,
\* with another study_id but the same study_uid, was refused.
C16_Witness ==
    \E r \in Requests : \E q \in Requests \ {r} :
        /\ req[r].pc = "failed" /\ req[r].error = "IntegrityError"
        /\ req[q].pc \in {"loop", "done"} /\ Len(req[q].stored_files_info) = 1
        /\ req[r].study_id # req[q].study_id
        /\ CurFile(r).StudyInstanceUID = req[q].files[1].StudyInstanceUID
        /\ Cardinality(studies) = 1 /\ seq.study = 3

\* The order in which the claim names the mandatory fields.
ClaimedOrder == <<"StudyDate", "PatientID", "PatientBirthDate", "PatientSex", "Laterality">>

\* The fields of the claimed order that a file lacks, by position.
Lacking(f) == { k \in 1..Len(ClaimedOrder) : Absent(f[ClaimedOrder[k]]) }

\* The payload StudyID is absent, empty or not the one of the path.
StudyIdMismatch(f, study_id) == Absent(f.StudyID) \/ f.StudyID # study_id

\* C17: a file is rejected with the identifier-mismatch error exactly when
\* its StudyID is absent, empty or different from the path study_id, whatever
\* mandatory fields it lacks; a file whose StudyID matches is rejected with
\* the missing-field error naming the first field it lacks in the order
\* StudyDate, PatientID, PatientBirthDate, PatientSex, Laterality, and passes
\* when it lacks none.
C17_MismatchBeforeFields ==
    \A r \in Requests :
        req[r].pc \in {"failed", "open"} =>
            LET f == CurFile(r)
                mismatch == StudyIdMismatch(f, req[r].study_id) IN
            /\ (req[r].pc = "failed" /\ req[r].status = 400 /\ req[r].detail = "Mismatched StudyID")
               <=> mismatch
            /\ (~mismatch /\ Lacking(f) # {}) =>
                  /\ req[r].pc = "failed" /\ req[r].status = 400
                  /\ \E k \in Lacking(f) :
                        /\ \A j \in Lacking(f) : k <= j
                        /\ req[r].detail = "missing " \o ClaimedOrder[k]
            /\ (~mismatch /\ Lacking(f) = {}) => req[r].pc = "open"

\* A file with another study's StudyID that also lacks its StudyDate and its
\* Laterality has been rejected for the mismatch.
C17_Witness ==
    \E r \in Requests :
        /\ req[r].pc = "failed" /\ req[r].detail = "Mismatched StudyID"
        /\ CurFile(r).StudyID \in StudyIds /\ CurFile(r).StudyID # req[r].study_id
        /\ CurFile(r).StudyDate = NoneVal /\ CurFile(r).Laterality = ""

\* Each committed image row points at the file named after its image_uid in
\* the DICOM directory, and the file is there.
C18_State ==
    \A i \in images :
        /\ i.image_path = DicomPath(i.image_uid)
        /\ dicomDir[i.image_uid] # NoBlob

\* No step removes a file from the DICOM directory.
C18_Step == \A u \in ImageUids : dicomDir[u] # NoBlob => dicomDir'[u] # NoBlob

\* C18: in every reachable state the image_path of each committed Image row
\* names a blob that exists under the row's image_uid: the blob is stored
\* before the row is created and ingestion never removes it.
C18_PathNamesBlob == [](C18_State) /\ [][C18_Step]_vars

\* An image was committed twice, its blob is on disk and its row points at it.
C18_Witness ==
    \E i \in images :
        /\ hist.ingests[i.image_uid] = 2
        /\ dicomDir[i.image_uid] \notin {NoBlob, EmptyBlob}
        /\ i.image_path = DicomPath(i.image_uid)

\* An image row without its score.
Scoreless(i) == [i EXCEPT !.score = DEFAULT_SCORE]

\* C19: ingestion never modifies a field of an existing Patient or Study
\* row, and of an existing Image row it can change the score only: every
\* step keeps each committed patient and study row as it is and each
\* committed image row up to its score.
C19_ExistingRowsKept ==
    [][ /\ patients \subseteq patients'
        /\ studies \subseteq studies'
        /\ \A i \in images : \E j \in images' : Scoreless(j) = Scoreless(i) ]_vars

\* A request committed two files of one patient and one study that differ in
\* sex, birth date, age and study date; the rows hold the values of the first.
C19_Witness ==
    \E r \in Requests :
        /\ req[r].pc = "done" /\ Len(req[r].body) = 2
        /\ req[r].files[1].PatientID = req[r].files[2].PatientID
        /\ req[r].files[1].PatientSex # req[r].files[2].PatientSex
        /\ req[r].files[1].PatientBirthDate # req[r].files[2].PatientBirthDate
        /\ req[r].files[1].PatientAge # req[r].files[2].PatientAge
        /\ req[r].files[1].StudyDate # req[r].files[2].StudyDate
        /\ \A p \in RowsOfPatient(req[r].files[1].PatientID) :
              /\ p.patient_sex = req[r].files[1].PatientSex
              /\ p.patient_birth_date = req[r].files[1].PatientBirthDate
              /\ p.patient_age = req[r].files[1].PatientAge
        /\ \A t \in RowsOfStudy(req[r].study_id) :
              /\ t.study_date = req[r].files[1].StudyDate
              /\ t.study_uid = req[r].files[1].StudyInstanceUID
              /\ t.result = 0
        /\ Cardinality(patients) = 1 /\ Cardinality(studies) = 1 /\ Cardinality(images) = 2

\* num / den rounded to the nearest integer, for num >= 0 and den > 0.
Rounded(num, den) == (2 * num + den) \div (2 * den)

\* C20: for a pixel array whose element type is not 8-bit unsigned and whose
\* min is below its max, every sample v is mapped to
\* round((v - min) / (max - min) * 255), a value in [0,255], with min mapped
\* to 0 and max to 255.
C20_RoundedMinMax ==
    (pixels.image # <<>> /\ pixels.dtype # "uint8"
        /\ MinOf(pixels.samples) < MaxOf(pixels.samples)) =>
        LET a == pixels.samples
            lo == MinOf(a)
            hi == MaxOf(a) IN
        \A k \in DOMAIN a :
            /\ pixels.image[k] = Rounded((a[k] - lo) * 255, hi - lo)
            /\ pixels.image[k] \in 0..255
            /\ a[k] = lo => pixels.image[k] = 0
            /\ a[k] = hi => pixels.image[k] = 255

====
